---- MODULE Spec2Model ----
(***************************************************************************)
(* ExtractComfyUIWorkflow.py as a state machine.                           *)
(*                                                                         *)
(* The state is the filesystem (files with their content, directories),    *)
(* the position of main(), and for every PNG file the position and the     *)
(* local variables of its process_png_file task in the thread pool.        *)
(* Every blocking call of a task (exiftool, exists(), open/write, magick,  *)
(* mkdir+move) is one atomic step, so that the steps of different tasks    *)
(* interleave the way the worker threads do.                               *)
(***************************************************************************)
EXTENDS Integers, Sequences, FiniteSets, TLC

VARIABLES
    fs,             \* the files on disk: path -> content
    dirs,           \* the directories on disk (each a sequence of names)
    which,          \* the external tools shutil.which() resolves
    review_input,   \* what the user types at the review-folder prompt
    tags,           \* content id of an image -> the tags exiftool reports for it
    main_pc,        \* position of main()
    review_folder,  \* main's review_folder
    png_files,      \* process_images_concurrently's png_files (the rglob snapshot)
    pc,             \* per file: position of its process_png_file task
    metadata,       \* per file: process_png_file's metadata
    save_data,      \* per file: save_metadata's metadata argument
    save_ext,       \* per file: save_metadata's extension argument
    unique_path,    \* per file: ensure_unique_filename's unique_path
    counter,        \* per file: ensure_unique_filename's counter
    file_path,      \* per file: ensure_unique_filename's file_path argument
    outcome,        \* per file: how its task ended (returned or the exception raised)
    collected,      \* the futures as_completed has yielded so far
    progress,       \* the progress bar's count
    fs0,            \* history: the files on disk when main() started
    writes,         \* history: the sidecar writes done
    moves,          \* history: the relocations done
    calls,          \* harness: number of calls made so far
    results,        \* harness: the paths ensure_unique_filename returned, in order
    trace,          \* history, per file: the steps its task has taken, in order
    reported        \* the files the batch loop has printed an error for

vars == <<fs, dirs, which, review_input, tags, main_pc, review_folder, png_files,
          pc, metadata, save_data, save_ext, unique_path, counter, file_path,
          outcome,
          collected, progress, fs0, writes, moves, calls, results, trace, reported>>

----------------------------------------------------------------------------
(* Bounds of the model *)

\* size of the thread pool (ThreadPoolExecutor() sizes it from the CPU count)
MaxWorkers == 2
\* number of PNG files under the images folder
MaxFiles == 2
\* number of successive calls the sequential harnesses make
MaxCalls == 3

----------------------------------------------------------------------------
(* Paths: pathlib.Path as directory, stem and suffix *)

Path(d, s, e) == [dir |-> d, stem |-> s, ext |-> e]

\* Path.with_suffix
with_suffix(p, e) == [p EXCEPT !.ext = e]

\* Path.relative_to
relative_to(p, root) == [p EXCEPT !.dir = SubSeq(p.dir, Len(root) + 1, Len(p.dir))]

\* destination_folder / relative_path
Join(folder, rel) == [rel EXCEPT !.dir = folder \o rel.dir]

IsUnder(p, root) == Len(p.dir) >= Len(root) /\ SubSeq(p.dir, 1, Len(root)) = root

\* a directory and all its ancestors: what mkdir(parents=True, exist_ok=True) ensures
Parents(d) == {SubSeq(d, 1, n) : n \in 1..Len(d)}

\* folder_path.rglob("*.png")
rglob(files, folder) == {p \in DOMAIN files : IsUnder(p, folder) /\ p.ext = ".png"}

images_folder == <<"img">>
NoFolder == <<>>

----------------------------------------------------------------------------
(* File contents and Python values *)

Image(id) == [kind |-> "png", id |-> id, text |-> ""]
Avif(id) == [kind |-> "avif", id |-> id, text |-> ""]
Text(t) == [kind |-> "text", id |-> "", text |-> t]

PyStr(s) == [py |-> "str", v |-> s]
PyInt(s) == [py |-> "int", v |-> s]
PyDict(s) == [py |-> "dict", v |-> s]
PyNone == [py |-> "none", v |-> ""]

\* json.loads: a parsed value, or the exception it raises
json_loads(x) ==
    IF x.py # "str" THEN [exc |-> "TypeError", value |-> PyNone]
    ELSE IF x.v = "{\"a\": 1}" THEN [exc |-> "", value |-> PyDict("{\n    \"a\": 1\n}")]
    ELSE [exc |-> "JSONDecodeError", value |-> PyNone]

\* json.dump(metadata, file, ensure_ascii=False, indent=4): the text written
json_dump(x) ==
    IF x.py = "str" THEN "\"" \o x.v \o "\"" ELSE x.v

\* metadata if isinstance(metadata, str) else str(metadata)
str(x) == x.v

EmptyMap == [k \in {} |-> PyNone]
Map1(k, v) == [j \in {k} |-> v]
Map2(k1, v1, k2, v2) == [j \in {k1, k2} |-> IF j = k1 THEN v1 ELSE v2]

\* the tag sets exiftool -j can report for an image
MetaMaps ==
    { EmptyMap,
      Map1("Workflow", PyStr("{\"a\": 1}")),
      Map1("Workflow", PyStr("oops")),
      Map1("Workflow", PyInt("42")),
      Map1("Parameters", PyStr("steps")),
      Map2("Workflow", PyStr("{\"a\": 1}"), "Parameters", PyStr("steps")),
      Map2("Workflow", PyInt("42"), "Parameters", PyStr("steps")) }

\* the tag sets the images of the model carry: every one for x.png, a ComfyUI
\* workflow or nothing for x_1.png, Automatic1111 parameters or nothing for
\* Review/x.png
TagChoices(id) ==
    IF id = "x" THEN MetaMaps
    ELSE IF id = "x_1" THEN {EmptyMap, Map1("Workflow", PyStr("{\"a\": 1}"))}
    ELSE {EmptyMap, Map1("Parameters", PyStr("steps"))}

----------------------------------------------------------------------------
(* The files of the model *)

PngX == Path(images_folder, "x", ".png")
PngX1 == Path(images_folder, "x_1", ".png")
PngRX == Path(images_folder \o <<"Review">>, "x", ".png")
PngUniverse == {PngX, PngX1, PngRX}

ContentId(p) == IF p = PngX THEN "x" ELSE IF p = PngX1 THEN "x_1" ELSE "Review/x"
Ids == {ContentId(p) : p \in PngUniverse}

Put(files, p, c) == [q \in (DOMAIN files) \cup {p} |-> IF q = p THEN c ELSE files[q]]
Remove(files, p) == [q \in (DOMAIN files) \ {p} |-> files[q]]
NoFiles == [q \in {} |-> Text("")]

NoValue == PyNone
NoPath == Path(<<>>, "", "")

Idle == [f \in PngUniverse |-> "idle"]

----------------------------------------------------------------------------
(* ensure_unique_filename, one exists() check per step *)

CounterStart == 1

\* faulty variant: the counter is incremented before it is used
new_name_incremented_first(path, n) ==
    [path EXCEPT !.stem = path.stem \o "_" \o ToString(n + 1)]

\* file_path.with_name(f"{file_path.stem}_{counter}{file_path.suffix}")
new_name(path, n) == [path EXCEPT !.stem = path.stem \o "_" \o ToString(n)]

\* faulty variant: the counter is kept from the previous call (a module-level counter)
ensure_unique_filename_call_stale_counter(f, path) ==
    /\ file_path' = [file_path EXCEPT ![f] = path]
    /\ unique_path' = [unique_path EXCEPT ![f] = path]
    /\ counter' = counter
    /\ pc' = [pc EXCEPT ![f] = "exists"]

\* the call: counter = 1, unique_path = file_path
ensure_unique_filename_call(f, path) ==
    /\ file_path' = [file_path EXCEPT ![f] = path]
    /\ unique_path' = [unique_path EXCEPT ![f] = path]
    /\ counter' = [counter EXCEPT ![f] = CounterStart]
    /\ pc' = [pc EXCEPT ![f] = "exists"]

\* faulty variant: the path is used as it is, without looking at the disk
loop_condition_never(f) == FALSE

\* while unique_path.exists(): one evaluation of the loop condition
loop_condition(f) == unique_path[f] \in DOMAIN fs

\* one iteration of the loop, or the return when the condition is false
ensure_unique_filename(f) ==
    /\ pc[f] = "exists"
    /\ IF loop_condition(f)
       THEN /\ unique_path' = [unique_path EXCEPT ![f] = new_name(file_path[f], counter[f])]
            /\ counter' = [counter EXCEPT ![f] = counter[f] + 1]
            /\ UNCHANGED pc
       ELSE /\ pc' = [pc EXCEPT ![f] = "open"]
            /\ UNCHANGED <<unique_path, counter>>
    /\ UNCHANGED <<fs, dirs, which, review_input, tags, main_pc, review_folder,
                   png_files, metadata, save_data, save_ext, file_path, outcome,
                   collected, progress, fs0, writes, moves, calls, results, trace, reported>>

----------------------------------------------------------------------------
(* save_metadata *)

\* the call: save_path = file_path.with_suffix(extension), then ensure_unique_filename
save_metadata_call(f, data, extension) ==
    /\ save_data' = [save_data EXCEPT ![f] = data]
    /\ save_ext' = [save_ext EXCEPT ![f] = extension]
    /\ ensure_unique_filename_call(f, with_suffix(f, extension))

\* history: the task of f has taken a step
Step(f, name) == trace' = [trace EXCEPT ![f] = Append(trace[f], name)]

\* what the with-block leaves in the file
written_text(data, extension) ==
    IF extension = ".json" THEN json_dump(data) ELSE str(data)

\* open(save_path, "w") creates the file or truncates the one that is there
open_w(files, p, text) == Put(files, p, Text(text))

\* with open(save_path, "w") as file: ... ; open may raise OSError
save_metadata_write(f) ==
    /\ pc[f] = "open"
    /\ \/ /\ fs' = open_w(fs, unique_path[f], written_text(save_data[f], save_ext[f]))
          /\ writes' = writes \cup {[by |-> f, call |-> calls, path |-> unique_path[f],
                                       content |-> fs'[unique_path[f]],
                                       fresh |-> unique_path[f] \notin DOMAIN fs]}
          /\ pc' = [pc EXCEPT ![f] = "convert"]
          /\ Step(f, "save_metadata")
          /\ UNCHANGED outcome
       \/ /\ pc' = [pc EXCEPT ![f] = "done"]
          /\ outcome' = [outcome EXCEPT ![f] = "OSError(open)"]
          /\ Step(f, "save_metadata raised")
          /\ UNCHANGED <<fs, writes>>
    /\ UNCHANGED <<dirs, which, review_input, tags, main_pc, review_folder, png_files,
                   metadata, save_data, save_ext, unique_path, counter, file_path,
                   collected, progress, fs0, moves, calls, results, reported>>

----------------------------------------------------------------------------
(* The steps of process_png_file *)

\* an exception leaves process_png_file
raise(f, exc) ==
    /\ pc' = [pc EXCEPT ![f] = "done"]
    /\ outcome' = [outcome EXCEPT ![f] = exc]

\* the tasks a worker thread is running
Running == {f \in PngUniverse : pc[f] \notin {"idle", "queued", "done"}}

\* exiftool -j <image_path>: the tags of the content that is at the path now
exiftool(f) ==
    IF f \in DOMAIN fs /\ fs[f].kind = "png" THEN tags[fs[f].id] ELSE EmptyMap

\* what subprocess.run(["exiftool", "-j", ...]) and the reading of its output
\* can do: a record read, a non-zero return code, output that json.loads
\* rejects (empty output too), or subprocess.run unable to start exiftool
ExiftoolOutcomes == {"ok", "returncode", "JSONDecodeError", "OSError"}

\* faulty variant: the handler is for the output that does not parse only
except_JSONDecodeError(exc) == exc = "JSONDecodeError"

\* except Exception as e: the exceptions extract_metadata catches, to return {}
extract_metadata_catches(exc) == exc \in {"JSONDecodeError", "OSError"}

\* faulty variant: the enumeration is consumed while the tasks run, so a PNG
\* file that turns up under the images folder later gets a task too
submitted_or_found_later(f) ==
    \/ pc[f] = "queued"
    \/ pc[f] = "idle" /\ f \in rglob(fs, images_folder)

\* the tasks waiting in the pool: those submitted for the files of the list
\* png_files, made before the first submit
submitted(f) == pc[f] = "queued"

\* a worker takes the task and runs extract_metadata: the first record of
\* exiftool's output, or {} on any failure
extract_metadata(f) ==
    /\ main_pc = "as_completed"
    /\ submitted(f)
    /\ Cardinality(Running) < MaxWorkers
    /\ \E r \in ExiftoolOutcomes :
          IF r = "ok"
          THEN /\ metadata' = [metadata EXCEPT ![f] = exiftool(f)]
               /\ pc' = [pc EXCEPT ![f] = "classify"]
               /\ UNCHANGED outcome
          ELSE IF r = "returncode" \/ extract_metadata_catches(r)
          THEN /\ metadata' = [metadata EXCEPT ![f] = EmptyMap]
               /\ pc' = [pc EXCEPT ![f] = "classify"]
               /\ UNCHANGED outcome
          ELSE /\ raise(f, r \o "(exiftool)")
               /\ UNCHANGED metadata
    /\ UNCHANGED <<fs, dirs, which, review_input, tags, main_pc, review_folder,
                   png_files, save_data, save_ext, unique_path, counter, file_path,
                   collected, progress, fs0, writes, moves, calls, results, reported>>
    /\ Step(f, "extract_metadata")

\* if "Workflow" in metadata ... elif "Parameters" in metadata ... else
process_png_file_classify(f) ==
    /\ pc[f] = "classify"
    /\ IF "Workflow" \in DOMAIN metadata[f]
       THEN LET data == metadata[f]["Workflow"]
                parsed == json_loads(data)
            IN  IF parsed.exc = ""
                THEN save_metadata_call(f, parsed.value, ".json") /\ UNCHANGED outcome
                ELSE IF parsed.exc = "JSONDecodeError"
                THEN save_metadata_call(f, data, ".json") /\ UNCHANGED outcome
                ELSE /\ raise(f, parsed.exc)
                     /\ UNCHANGED <<save_data, save_ext, unique_path, counter, file_path>>
       ELSE IF "Parameters" \in DOMAIN metadata[f]
       THEN save_metadata_call(f, metadata[f]["Parameters"], ".txt") /\ UNCHANGED outcome
       ELSE /\ pc' = [pc EXCEPT ![f] = "convert"]
            /\ UNCHANGED <<save_data, save_ext, unique_path, counter, file_path, outcome>>
    /\ UNCHANGED <<fs, dirs, which, review_input, tags, main_pc, review_folder,
                   png_files, metadata, collected, progress, fs0, writes, moves,
                   calls, results, reported>>
    /\ Step(f, "classify")

\* what subprocess.run(["magick", ...], check=True) can do
MagickOutcomes(f) ==
    IF f \in DOMAIN fs THEN {"ok", "CalledProcessError", "OSError"}
    ELSE {"CalledProcessError", "OSError"}

\* the exceptions compress_to_avif catches and turns into False
compress_to_avif_catches(exc) == exc = "CalledProcessError"

\* faulty variant: the AVIF path gets a counter suffix when a file is there
avif_path_unique(f) ==
    IF with_suffix(f, ".avif") \in DOMAIN fs
    THEN new_name(with_suffix(f, ".avif"), CounterStart)
    ELSE with_suffix(f, ".avif")

\* avif_path = image_path.with_suffix(".avif")
avif_path(f) == with_suffix(f, ".avif")

\* faulty variant: the file is moved whatever compress_to_avif returned
moved_always(returned) == TRUE

\* if compress_to_avif(image_path, avif_path): whether the move is reached
moved_if(returned) == returned

\* process_png_file after compress_to_avif has returned: the move, or the end
after_compress_to_avif(f, returned) ==
    IF moved_if(returned)
    THEN pc' = [pc EXCEPT ![f] = "move"] /\ UNCHANGED outcome
    ELSE /\ pc' = [pc EXCEPT ![f] = "done"]
         /\ outcome' = [outcome EXCEPT ![f] = "ConversionFailed"]

\* avif_path = image_path.with_suffix(".avif"); if compress_to_avif(...): move
compress_to_avif(f) ==
    /\ pc[f] = "convert"
    /\ \E r \in MagickOutcomes(f) :
          IF r = "ok"
          THEN /\ fs' = Put(fs, avif_path(f), Avif(fs[f].id))
               /\ after_compress_to_avif(f, TRUE)
               /\ Step(f, "compress_to_avif True")
          ELSE IF compress_to_avif_catches(r)
          THEN /\ after_compress_to_avif(f, FALSE)
               /\ Step(f, "compress_to_avif False")
               /\ UNCHANGED fs
          ELSE /\ raise(f, "OSError(magick)")
               /\ Step(f, "compress_to_avif raised")
               /\ UNCHANGED fs
    /\ UNCHANGED <<dirs, which, review_input, tags, main_pc, review_folder, png_files,
                   metadata, save_data, save_ext, unique_path, counter, file_path,
                   collected, progress, fs0, writes, moves, calls, results, reported>>

\* faulty variant: the file goes straight into the destination folder, its
\* sub-directories dropped
destination_path_flat(f, root_folder, destination_folder) ==
    Path(destination_folder, f.stem, f.ext)

\* destination_folder / file_path.relative_to(root_folder)
destination_path(f, root_folder, destination_folder) ==
    Join(destination_folder, relative_to(f, root_folder))

\* shutil.move of a file: a rename, which replaces a file that is at the destination
shutil_move(files, src, dst) == Put(Remove(files, src), dst, files[src])

\* move_file_with_structure: mkdir(parents=True, exist_ok=True), then shutil.move,
\* which may raise and then leaves the source where it is
move_file_with_structure(f) ==
    /\ pc[f] = "move"
    /\ LET dst == destination_path(f, images_folder, review_folder)
       IN  /\ dirs' = dirs \cup Parents(dst.dir)
           /\ \/ /\ f \in DOMAIN fs
                 /\ fs' = shutil_move(fs, f, dst)
                 /\ moves' = moves \cup {[by |-> f, dst |-> dst, content |-> fs[f],
                                          made |-> Parents(dst.dir) \ dirs]}
                 /\ pc' = [pc EXCEPT ![f] = "done"]
                 /\ outcome' = [outcome EXCEPT ![f] = "Success"]
                 /\ Step(f, "move_file_with_structure")
              \/ /\ raise(f, "OSError(move)")
                 /\ Step(f, "move_file_with_structure raised")
                 /\ UNCHANGED <<fs, moves>>
    /\ UNCHANGED <<which, review_input, tags, main_pc, review_folder, png_files,
                   metadata, save_data, save_ext, unique_path, counter, file_path,
                   collected, progress, fs0, writes, calls, results, reported>>

----------------------------------------------------------------------------
(* process_images_concurrently and main *)

RequiredTools == {"magick", "exiftool"}

\* faulty variant: main goes on after check_dependencies has failed
check_dependencies_result_ignored(tools) == TRUE

\* all(shutil.which(tool) for tool in required_tools)
all_tools_found(tools) == RequiredTools \subseteq tools

\* check_dependencies: EnvironmentError when a tool is missing, and main returns
check_dependencies ==
    /\ main_pc = "check_dependencies"
    /\ main_pc' = IF all_tools_found(which) THEN "input_images" ELSE "return"
    /\ UNCHANGED <<fs, dirs, which, review_input, tags, review_folder, png_files,
                   pc, metadata, save_data, save_ext, unique_path, counter, file_path,
                   outcome, collected, progress, fs0, writes, moves, calls, results, trace, reported>>

\* if not images_folder.is_dir(): return
input_images ==
    /\ main_pc = "input_images"
    /\ main_pc' = IF images_folder \in dirs THEN "input_review" ELSE "return"
    /\ UNCHANGED <<fs, dirs, which, review_input, tags, review_folder, png_files,
                   pc, metadata, save_data, save_ext, unique_path, counter, file_path,
                   outcome, collected, progress, fs0, writes, moves, calls, results, trace, reported>>

\* the review folder main chooses: the one typed, or images_folder / "Review"
choose_review_folder(typed) ==
    IF typed # "" THEN <<typed>> ELSE images_folder \o <<"Review">>

\* review_folder = ...; review_folder.mkdir(parents=True, exist_ok=True)
input_review ==
    /\ main_pc = "input_review"
    /\ review_folder' = choose_review_folder(review_input)
    /\ dirs' = dirs \cup Parents(review_folder')
    /\ main_pc' = "rglob"
    /\ UNCHANGED <<fs, which, review_input, tags, png_files,
                   pc, metadata, save_data, save_ext, unique_path, counter, file_path,
                   outcome, collected, progress, fs0, writes, moves, calls, results, trace, reported>>

\* faulty variant: the files of sub-directories are found but not submitted
future_to_file_top(files) == {f \in files : f.dir = images_folder}

\* {executor.submit(process_png_file, png_file, ...): png_file for png_file in
\* png_files}: the files a task is submitted for
future_to_file(files) == files

\* png_files = list(folder_path.rglob("*.png")); return when empty, else submit
\* process_png_file for every file
submit ==
    /\ main_pc = "rglob"
    /\ png_files' = rglob(fs, images_folder)
    /\ pc' = [f \in PngUniverse |->
                IF f \in future_to_file(png_files') THEN "queued" ELSE pc[f]]
    /\ main_pc' = IF png_files' = {} THEN "complete" ELSE "as_completed"
    /\ UNCHANGED <<fs, dirs, which, review_input, tags, review_folder,
                   metadata, save_data, save_ext, unique_path, counter, file_path,
                   outcome, collected, progress, fs0, writes, moves, calls, results, trace, reported>>

Returned == {"Success", "ConversionFailed"}

\* faulty variant: future.result() is called outside any try
except_nothing(exc) == FALSE

\* except Exception: whether the handler around future.result() catches exc
except_Exception(exc) == TRUE

\* faulty variant: the bar is updated at the end of the try block, which a
\* task that raised does not reach
progress_bar_update_in_try(result) == IF result \in Returned THEN 1 ELSE 0

\* finally: progress_bar.update(1), whatever future.result() did
progress_bar_update(result) == 1

\* faulty variant: the loop also prints an error for a conversion that failed
error_printed_unless_moved(result) == result # "Success"

\* print(f"Error processing file ..."): reached when future.result() raised and
\* the handler caught it
error_printed(result) == result \notin Returned /\ except_Exception(result)

\* for future in as_completed(...): try future.result() except Exception ... finally
\* progress_bar.update(1)
as_completed(f) ==
    /\ main_pc = "as_completed"
    /\ pc[f] = "done"
    /\ f \in png_files \ collected
    /\ collected' = collected \cup {f}
    /\ progress' = progress + progress_bar_update(outcome[f])
    /\ main_pc' = IF outcome[f] \in Returned \/ except_Exception(outcome[f])
                  THEN main_pc ELSE "crashed"
    /\ reported' = IF error_printed(outcome[f]) THEN reported \cup {f} ELSE reported
    /\ UNCHANGED <<fs, dirs, which, review_input, tags, review_folder, png_files,
                   pc, metadata, save_data, save_ext, unique_path, counter, file_path,
                   outcome, fs0, writes, moves, calls, results, trace>>

\* the loop is over: the pool shuts down and main prints "Processing complete."
complete ==
    /\ main_pc = "as_completed"
    /\ collected = png_files
    /\ main_pc' = "complete"
    /\ UNCHANGED <<fs, dirs, which, review_input, tags, review_folder, png_files,
                   pc, metadata, save_data, save_ext, unique_path, counter, file_path,
                   outcome, collected, progress, fs0, writes, moves, calls, results, trace, reported>>

----------------------------------------------------------------------------
(* The run of main() *)

\* sidecars an earlier run may have left beside the images
OldSidecars == {Path(images_folder, "x", ".json")}

\* the AVIF file the earlier run made of the x.png it had then
OldAvifs == {Path(images_folder, "x", ".avif")}

\* what an earlier run may have left: nothing, or its sidecar and its AVIF file
EarlierRuns == {{}, OldSidecars \cup OldAvifs}

FilesOf(pngs, old) ==
    [p \in pngs \cup old |->
        IF p \in pngs THEN Image(ContentId(p))
        ELSE IF p.ext = ".avif" THEN Avif("old") ELSE Text("old")]

DirsOf(files) == UNION {Parents(p.dir) : p \in DOMAIN files} \cup Parents(images_folder)

InitLocals ==
    /\ pc = Idle
    /\ metadata = [f \in PngUniverse |-> EmptyMap]
    /\ save_data = [f \in PngUniverse |-> NoValue]
    /\ save_ext = [f \in PngUniverse |-> ""]
    /\ unique_path = [f \in PngUniverse |-> NoPath]
    /\ file_path = [f \in PngUniverse |-> NoPath]
    /\ counter = [f \in PngUniverse |-> 0]
    /\ outcome = [f \in PngUniverse |-> ""]
    /\ writes = {}
    /\ moves = {}
    /\ calls = 0
    /\ results = <<>>
    /\ trace = [f \in PngUniverse |-> <<>>]
    /\ reported = {}

Init ==
    /\ which \in SUBSET RequiredTools
    /\ review_input \in {"", "rev"}
    /\ \E pngs \in SUBSET PngUniverse, old \in EarlierRuns :
          /\ Cardinality(pngs) <= MaxFiles
          /\ fs = FilesOf(pngs, old)
          /\ tags \in [Ids -> MetaMaps]
          /\ \A id \in Ids : tags[id] \in TagChoices(id)
          /\ \A p \in PngUniverse \ pngs : tags[ContentId(p)] = EmptyMap
    /\ dirs \in {DirsOf(fs), {}}
    /\ dirs = {} => fs = NoFiles
    /\ fs0 = fs
    /\ main_pc = "check_dependencies"
    /\ review_folder = NoFolder
    /\ png_files = {}
    /\ collected = {}
    /\ progress = 0
    /\ InitLocals

Next ==
    \/ check_dependencies
    \/ input_images
    \/ input_review
    \/ submit
    \/ \E f \in PngUniverse : extract_metadata(f)
    \/ \E f \in PngUniverse : process_png_file_classify(f)
    \/ \E f \in PngUniverse : ensure_unique_filename(f)
    \/ \E f \in PngUniverse : save_metadata_write(f)
    \/ \E f \in PngUniverse : compress_to_avif(f)
    \/ \E f \in PngUniverse : move_file_with_structure(f)
    \/ \E f \in PngUniverse : as_completed(f)
    \/ complete

Spec == Init /\ [][Next]_vars

----------------------------------------------------------------------------
(* Sequential callers of ensure_unique_filename and save_metadata: one     *)
(* caller, one call after the other, on a directory that already holds     *)
(* some sidecars.                                                          *)

Caller == PngX

SidecarUniverse ==
    { Path(images_folder, "x", ".json"), Path(images_folder, "x_1", ".json"),
      Path(images_folder, "x_2", ".json"), Path(images_folder, "x_1_1", ".json"),
      Path(images_folder, "x", ".txt") }

DesiredPaths ==
    { Path(images_folder, "x", ".json"), Path(images_folder, "x_1", ".json"),
      Path(images_folder, "x", ".txt") }

InitSequential ==
    /\ which = RequiredTools
    /\ review_input = ""
    /\ tags = [id \in Ids |-> EmptyMap]
    /\ \E old \in SUBSET SidecarUniverse : fs = FilesOf({}, old)
    /\ dirs = DirsOf(fs)
    /\ fs0 = fs
    /\ main_pc = "caller"
    /\ review_folder = NoFolder
    /\ png_files = {}
    /\ collected = {}
    /\ progress = 0
    /\ InitLocals

\* the caller calls ensure_unique_filename(path)
CallUnique ==
    /\ pc[Caller] = "idle"
    /\ calls < MaxCalls
    /\ calls' = calls + 1
    /\ \E path \in DesiredPaths : ensure_unique_filename_call(Caller, path)
    /\ UNCHANGED <<fs, dirs, which, review_input, tags, main_pc, review_folder,
                   png_files, metadata, save_data, save_ext, outcome, collected,
                   progress, fs0, writes, moves, results, trace, reported>>

\* ensure_unique_filename has returned unique_path to the caller
ReturnUnique ==
    /\ pc[Caller] = "open"
    /\ results' = Append(results, [arg |-> file_path[Caller], path |-> unique_path[Caller],
                                   files |-> DOMAIN fs])
    /\ pc' = [pc EXCEPT ![Caller] = "idle"]
    /\ UNCHANGED <<fs, dirs, which, review_input, tags, main_pc, review_folder,
                   png_files, metadata, save_data, save_ext, unique_path, counter,
                   file_path, outcome, collected, progress, fs0, writes, moves, calls,
                   trace, reported>>

NextUnique ==
    \/ CallUnique
    \/ ensure_unique_filename(Caller)
    \/ ReturnUnique

SpecUnique == InitSequential /\ [][NextUnique]_vars

\* the caller calls save_metadata(file_path, metadata, extension), after the
\* previous call has returned or raised
CallSave ==
    /\ pc[Caller] \in {"idle", "convert", "done"}
    /\ calls < MaxCalls
    /\ calls' = calls + 1
    /\ \E data \in {PyStr("steps"), PyDict("{}")}, extension \in {".json", ".txt"} :
          save_metadata_call(Caller, data, extension)
    /\ UNCHANGED <<fs, dirs, which, review_input, tags, main_pc, review_folder,
                   png_files, metadata, outcome, collected, progress, fs0, writes,
                   moves, results, trace, reported>>

NextSave ==
    \/ CallSave
    \/ ensure_unique_filename(Caller)
    \/ save_metadata_write(Caller)

SpecSave == InitSequential /\ [][NextSave]_vars

----------------------------------------------------------------------------
(* Claims about ensure_unique_filename and save_metadata, called in sequence *)

\* the k-th counter-suffixed candidate of a desired path: <stem>_k<ext>
Suffixed(path, k) == Path(path.dir, path.stem \o "_" \o ToString(k), path.ext)

\* C9: ensure_unique_filename(desired) returns a path that does not exist; it is
\* desired itself when desired does not exist, and otherwise the first candidate
\* <stem>_1<ext>, <stem>_2<ext>, ... that does not exist; no file is created.
C9_AllocatorResult ==
    /\ fs = fs0
    /\ \A i \in 1..Len(results) :
          LET r == results[i]
          IN  /\ r.path \notin r.files
              /\ r.arg \notin r.files => r.path = r.arg
              /\ r.arg \in r.files =>
                    \E k \in 1..Cardinality(r.files) :
                       /\ r.path = Suffixed(r.arg, k)
                       /\ \A j \in 1..(k - 1) : Suffixed(r.arg, j) \in r.files

\* a call for a path that exists, as does its first candidate: the second is returned
C9_Witness ==
    \E i \in 1..Len(results) :
       /\ results[i].arg \in results[i].files
       /\ Suffixed(results[i].arg, 1) \in results[i].files
       /\ results[i].path = Suffixed(results[i].arg, 2)

\* C10: two calls of ensure_unique_filename in a row with the same desired path,
\* no file created or removed in between, return the same path.
C10_AllocatorIdempotent ==
    \A i \in 1..(Len(results) - 1) :
       (results[i].arg = results[i + 1].arg /\ results[i].files = results[i + 1].files)
          => results[i].path = results[i + 1].path

\* two calls in a row for the same existing path have returned
C10_Witness ==
    /\ Len(results) >= 2
    /\ results[1].arg = results[2].arg
    /\ results[1].arg \in results[1].files
    /\ results[1].path # results[1].arg

\* C4: successive save_metadata calls produce one new file each: every write goes
\* to a path that did not exist, so the files written are distinct, and no file that
\* was there before a call (from before the run or from an earlier call) is changed.
C4_NoSidecarCollision ==
    /\ \A w \in writes :
          /\ w.fresh
          /\ w.path \in DOMAIN fs /\ fs[w.path] = w.content
    /\ \A v, w \in writes : v.call # w.call => v.path # w.path
    /\ \A p \in DOMAIN fs0 : p \in DOMAIN fs /\ fs[p] = fs0[p]
    /\ Cardinality(DOMAIN fs) = Cardinality(DOMAIN fs0) + Cardinality(writes)

\* MaxCalls calls with the same natural path, which existed before the first
C4_Witness ==
    /\ Cardinality(writes) = MaxCalls
    /\ Path(images_folder, "x", ".json") \in DOMAIN fs0
    /\ \A w \in writes : w.path.ext = ".json"

----------------------------------------------------------------------------
(* Claims about the batch *)

\* the exceptions a task can end with
Raised == {"TypeError", "OSError(open)", "OSError(magick)", "OSError(move)"}

\* reviewRoot/relPath of a discovered file: the review folder, then the file's
\* sub-directories below the images folder, then its name
ReviewPath(f) ==
    Path(review_folder \o SubSeq(f.dir, Len(images_folder) + 1, Len(f.dir)), f.stem, f.ext)

\* the original of f (what was at its path when the run started) is at path p
OriginalAt(f, p) == p \in DOMAIN fs /\ fs[p] = fs0[f]

\* C1: when the batch has finished, every file whose conversion failed still has
\* its original at its original path, and there is no entry for it at
\* reviewRoot/relPath.
C1_ConversionGatesRelocation ==
    main_pc = "complete" =>
       \A f \in png_files :
          outcome[f] = "ConversionFailed" =>
             /\ OriginalAt(f, f)
             /\ ReviewPath(f) \in DOMAIN fs =>
                   /\ ReviewPath(f) \in DOMAIN fs0
                   /\ ~OriginalAt(f, ReviewPath(f))

\* the next step of a task
TaskStep(f) ==
    \/ extract_metadata(f)
    \/ process_png_file_classify(f)
    \/ ensure_unique_filename(f)
    \/ save_metadata_write(f)
    \/ compress_to_avif(f)
    \/ move_file_with_structure(f)

\* C2: an exception of one task never ends process_images_concurrently and
\* cancels nothing: the loop goes on, every unfinished task can take its next step
\* (a queued one as soon as a worker is free), and when the batch is complete every
\* file has been run to an outcome (returned or raised) and has been counted.
C2_FailureIsolation ==
    /\ main_pc # "crashed"
    /\ \A f \in png_files :
          (pc[f] # "done" /\ (pc[f] = "queued" => Cardinality(Running) < MaxWorkers))
             => ENABLED TaskStep(f)
    /\ main_pc = "complete" =>
          /\ \A f \in png_files : pc[f] = "done" /\ outcome[f] \in Returned \cup Raised
          /\ collected = png_files
          /\ progress = Cardinality(png_files)

\* the batch is complete, one task raised and another one succeeded
C2_Witness ==
    /\ main_pc = "complete"
    /\ \E f, g \in png_files : outcome[f] \in Raised /\ outcome[g] = "Success"

\* C3: when the batch has finished, the original of every discovered file is at
\* reviewRoot/relPath if its task succeeded, and at its original path otherwise.
C3_NoFileLost ==
    main_pc = "complete" =>
       \A f \in png_files :
          IF outcome[f] = "Success" THEN OriginalAt(f, ReviewPath(f)) ELSE OriginalAt(f, f)

\* C5: no two tasks write their sidecar to the same path.
C5_SidecarWritesDisjoint ==
    \A v, w \in writes : v.by # w.by => v.path # w.path

\* the sidecars a task has written
SidecarsBy(f) == {w \in writes : w.by = f}

\* the task is past its sidecar step, and the disk did not refuse the write
PastSidecar(f) ==
    \/ pc[f] \in {"convert", "move"}
    \/ pc[f] = "done" /\ outcome[f] # "OSError(open)"

\* C6: a task writes at most one sidecar; with both fields exactly one, a .json
\* one made from the Workflow value; with Parameters only exactly one .txt; with
\* neither field none.
C6_ClassificationPriority ==
    \A f \in png_files :
       /\ Cardinality(SidecarsBy(f)) <= 1
       /\ PastSidecar(f) =>
             LET m == metadata[f]
                 fields == DOMAIN m \cap {"Workflow", "Parameters"}
             IN  /\ fields = {"Workflow", "Parameters"} =>
                       \E w \in SidecarsBy(f) :
                          /\ SidecarsBy(f) = {w}
                          /\ w.path.ext = ".json"
                          /\ w.content.text # m["Parameters"].v
                 /\ fields = {"Parameters"} =>
                       \E w \in SidecarsBy(f) :
                          /\ SidecarsBy(f) = {w}
                          /\ w.path.ext = ".txt"
                 /\ fields = {} => SidecarsBy(f) = {}

\* C7: a Workflow value that cannot be parsed still gives a .json sidecar, which
\* holds the raw value; no exception leaves process_png_file and the task goes
\* on to the conversion.
C7_MalformedPayloadPreserved ==
    \A f \in png_files :
       (/\ PastSidecar(f)
        /\ "Workflow" \in DOMAIN metadata[f]
        /\ json_loads(metadata[f]["Workflow"]).exc # "") =>
          /\ \E w \in SidecarsBy(f) :
                /\ w.path.ext = ".json"
                /\ w.content.text = metadata[f]["Workflow"].v
          /\ outcome[f] # "TypeError"

\* C8: the relocation of a converted file puts it at exactly reviewRoot/relPath,
\* with the directories on the way there created, and takes it away from its
\* place under the images folder.
C8_RelativeStructurePreserved ==
    [][\A f \in PngUniverse :
          (pc[f] = "move" /\ outcome'[f] = "Success") =>
             /\ ReviewPath(f) \in DOMAIN fs'
             /\ fs'[ReviewPath(f)] = fs[f]
             /\ Parents(ReviewPath(f).dir) \subseteq dirs'
             /\ f \notin DOMAIN fs']_vars

\* a file in a sub-directory has been relocated, and directories were made for it
C8_Witness ==
    \E m \in moves :
       /\ m.by = PngRX
       /\ m.made # {}
       /\ outcome[PngRX] = "Success"

----------------------------------------------------------------------------
(* Claims about the steps of one task and about the batch *)

\* the last step the task of f has taken
LastStep(f) == IF trace[f] = <<>> THEN "" ELSE trace[f][Len(trace[f])]

\* C11: compress_to_avif never raises: the conversion step of a task ends with
\* True, and then the AVIF file is there, or with False, also when the encoder
\* could not be started; the step leaves the source file as it was.
C11_ConverterNeverThrows ==
    [][\A f \in PngUniverse :
          (pc[f] = "convert" /\ pc'[f] # "convert") =>
             /\ LastStep(f)' \in {"compress_to_avif True", "compress_to_avif False"}
             /\ LastStep(f)' = "compress_to_avif True" =>
                   with_suffix(f, ".avif") \in DOMAIN fs'
             /\ f \in DOMAIN fs => (f \in DOMAIN fs' /\ fs'[f] = fs[f])]_vars

\* the steps the task of f has taken so far
StepsOf(f) == {trace[f][i] : i \in 1..Len(trace[f])}

ConversionSteps ==
    {"compress_to_avif True", "compress_to_avif False", "compress_to_avif raised"}

RelocationSteps == {"move_file_with_structure", "move_file_with_structure raised"}

SidecarSteps == {"save_metadata", "save_metadata raised"}

\* C12: a sidecar write that fails does not end the task: a task that is over
\* and whose save_metadata raised has still attempted the conversion, and the
\* relocation too when the conversion returned True.
C12_SidecarFailureNonFatal ==
    \A f \in png_files :
       (pc[f] = "done" /\ "save_metadata raised" \in StepsOf(f)) =>
          /\ StepsOf(f) \cap ConversionSteps # {}
          /\ "compress_to_avif True" \in StepsOf(f) =>
                StepsOf(f) \cap RelocationSteps # {}

\* C13: a relocation whose destination reviewRoot/relPath is already there fails:
\* the file at the destination stays as it was and so does the source; and a
\* relocation that fails, for whatever reason, leaves the source where it is.
C13_ExistingDestinationKept ==
    [][\A f \in PngUniverse :
          (pc[f] = "move" /\ pc'[f] = "done") =>
             /\ ReviewPath(f) \in DOMAIN fs =>
                   /\ LastStep(f)' = "move_file_with_structure raised"
                   /\ ReviewPath(f) \in DOMAIN fs'
                   /\ fs'[ReviewPath(f)] = fs[ReviewPath(f)]
             /\ LastStep(f)' = "move_file_with_structure raised" =>
                   (f \in DOMAIN fs => (f \in DOMAIN fs' /\ fs'[f] = fs[f]))]_vars

\* nothing was read, created, written or moved: the files and directories are
\* those of the start, no review folder is chosen, nothing enumerated, no task
\* submitted or started
Untouched ==
    /\ fs = fs0
    /\ dirs \subseteq DirsOf(fs0)
    /\ review_folder = NoFolder
    /\ png_files = {}
    /\ pc = Idle
    /\ trace = [f \in PngUniverse |-> <<>>]
    /\ writes = {} /\ moves = {}
    /\ collected = {} /\ progress = 0

\* C14: when magick or exiftool is missing, or the images folder is not a
\* directory, main returns with nothing read, created, written or moved; and
\* these are the only runs in which main returns early.
C14_PreflightGate ==
    /\ (~(RequiredTools \subseteq which) \/ images_folder \notin dirs) =>
          /\ Untouched
          /\ main_pc \in {"check_dependencies", "input_images", "return"}
    /\ main_pc = "return" =>
          (~(RequiredTools \subseteq which) \/ images_folder \notin dirs)

\* main has returned because a tool is missing, with images waiting in the folder
C14_Witness ==
    /\ main_pc = "return"
    /\ ~(RequiredTools \subseteq which)
    /\ images_folder \in dirs
    /\ rglob(fs, images_folder) # {}

\* the files whose task ended in the given outcomes
Ended(outcomes) == {f \in png_files : pc[f] = "done" /\ outcome[f] \in outcomes}

C16_ExclusiveOwnership ==
    /\ \A m \in moves : m.dst \notin png_files \ {m.by}
    /\ \A w \in writes : w.path \notin png_files
    /\ \A f \in png_files : with_suffix(f, ".avif") \notin png_files

\* C17: no file that the enumeration returned lies under the review folder.
C17_ReviewRootDisjoint ==
    main_pc \in {"as_completed", "complete", "crashed"} =>
       \A f \in png_files : ~IsUnder(f, review_folder)

\* how often the task of f has been started
Starts(f) == Cardinality({i \in 1..Len(trace[f]) : trace[f][i] = "extract_metadata"})

\* C18: once the tasks are submitted, every discovered file has a task and no
\* other file has one; no task is started more than once, a task that is over
\* was started exactly once, and at completion that is every discovered file.
C18_ExactlyOnceDispatch ==
    /\ main_pc \in {"as_completed", "complete"} =>
          \A f \in PngUniverse : (f \in png_files) <=> (pc[f] # "idle")
    /\ \A f \in PngUniverse :
          /\ Starts(f) <= 1
          /\ pc[f] \notin {"idle", "queued"} => Starts(f) = 1
          /\ f \notin png_files => trace[f] = <<>>
    /\ main_pc = "complete" => \A f \in png_files : Starts(f) = 1 /\ pc[f] = "done"

\* the batch is over and the two discovered files, one of them in a
\* sub-directory, were each processed once
C18_Witness ==
    /\ main_pc = "complete"
    /\ png_files = {PngX, PngRX}
    /\ Starts(PngX) = 1 /\ Starts(PngRX) = 1

\* the place of a step in the order of process_png_file
Rank(step) ==
    CASE step = "extract_metadata" -> 1
      [] step = "classify" -> 2
      [] step \in SidecarSteps -> 3
      [] step \in ConversionSteps -> 4
      [] step \in RelocationSteps -> 5

\* C19: within one task the steps come in a fixed order: extraction, then the
\* sidecar write, then the conversion, then the relocation, each at most once;
\* the relocation is attempted only right after a conversion that returned
\* True, and until its own relocation step a task has not moved its file.
C19_StepOrder ==
    \A f \in PngUniverse :
       /\ \A i \in 1..(Len(trace[f]) - 1) : Rank(trace[f][i]) < Rank(trace[f][i + 1])
       /\ trace[f] # <<>> => trace[f][1] = "extract_metadata"
       /\ \A j \in 1..Len(trace[f]) :
             trace[f][j] \in RelocationSteps =>
                j > 1 /\ trace[f][j - 1] = "compress_to_avif True"
       /\ pc[f] = "move" <=> LastStep(f) = "compress_to_avif True"
       /\ (\E m \in moves : m.by = f) <=> LastStep(f) = "move_file_with_structure"

\* a task has taken all four steps: it wrote a sidecar, converted and relocated
C19_Witness ==
    \E f \in png_files :
       trace[f] = <<"extract_metadata", "classify", "save_metadata",
                    "compress_to_avif True", "move_file_with_structure">>

----------------------------------------------------------------------------
(* The batch under fair scheduling *)

\* the tag sets of the runs followed to their end: for x.png nothing, a workflow
\* that parses, or one that exiftool reports as a number; nothing for x_1.png;
\* parameters or nothing for Review/x.png
FairTagChoices(id) ==
    IF id = "x" THEN {EmptyMap, Map1("Workflow", PyStr("{\"a\": 1}")),
                      Map1("Workflow", PyInt("42"))}
    ELSE TagChoices(id) \ {Map1("Workflow", PyStr("{\"a\": 1}"))}

InitFair ==
    /\ Init
    /\ \A id \in Ids : tags[id] \in FairTagChoices(id)

\* every call returns and the pool's threads and the main thread get to run: a
\* step that stays possible is taken
FairSpec == InitFair /\ [][Next]_vars /\ WF_vars(Next)

\* C20: under fair scheduling the run ends: main returns early or the batch
\* completes; and the batch completes only when every submitted file has
\* produced its outcome and the loop has collected it.
C20_BatchCompletes ==
    /\ <>(main_pc \in {"complete", "return"})
    /\ [](main_pc = "complete" =>
             \A f \in png_files :
                pc[f] = "done" /\ outcome[f] \in Returned \cup Raised /\ f \in collected)

\* the batch has completed with two files, one task returned and one raised
C20_Witness ==
    /\ main_pc = "complete"
    /\ Cardinality(png_files) = MaxFiles
    /\ Ended(Returned) # {}
    /\ Ended(Raised) # {}

----------------------------------------------------------------------------
(* Claims about the progress count, the extraction, the enumeration and the
   AVIF path *)

\* C21: the progress count changes only in a step of the batch loop that
\* collects one finished task, returned or raised, and then it grows by exactly
\* one; it is the number of tasks collected, never more than the number of
\* discovered files, and equal to it when the batch is complete.
C21_ProgressAccounting ==
    /\ [](/\ progress = Cardinality(collected)
          /\ collected \subseteq png_files
          /\ progress <= Cardinality(png_files)
          /\ main_pc = "complete" => progress = Cardinality(png_files))
    /\ [][/\ progress' # progress =>
                /\ progress' = progress + 1
                /\ main_pc = "as_completed"
                /\ \E f \in png_files \ collected :
                      /\ pc[f] = "done"
                      /\ outcome[f] \in Returned \cup Raised
                      /\ collected' = collected \cup {f}
          /\ collected' # collected => progress' = progress + 1]_vars

\* the batch is over and the count has taken in a task that returned and a task
\* that raised
C21_Witness ==
    /\ main_pc = "complete"
    /\ progress = MaxFiles
    /\ \E f \in collected : outcome[f] \in Raised
    /\ \E f \in collected : outcome[f] \in Returned

\* C22: extract_metadata never raises: the step ends with the record exiftool
\* reported or, on any failure, with the empty mapping, and the task goes on;
\* a task with the empty mapping writes no sidecar, goes to the conversion and,
\* when that returned True, to the relocation.
C22_ExtractionFailureNonFatal ==
    /\ [][\A f \in PngUniverse :
             (pc[f] = "queued" /\ pc'[f] # "queued") =>
                /\ pc'[f] = "classify"
                /\ outcome'[f] = ""
                /\ metadata'[f] \in {exiftool(f), EmptyMap}]_vars
    /\ [](\A f \in png_files :
             ("classify" \in StepsOf(f) /\ metadata[f] = EmptyMap) =>
                /\ StepsOf(f) \cap SidecarSteps = {}
                /\ \A w \in writes : w.by # f
                /\ pc[f] \in {"convert", "move", "done"}
                /\ pc[f] = "done" => StepsOf(f) \cap ConversionSteps # {}
                /\ (pc[f] = "done" /\ "compress_to_avif True" \in StepsOf(f)) =>
                      StepsOf(f) \cap RelocationSteps # {})

\* the extraction failed for an image that carries a workflow: no sidecar was
\* written, and the image was converted and relocated
C22_Witness ==
    /\ review_folder = <<"rev">>
    /\ tags["x"] # EmptyMap
    /\ metadata[PngX] = EmptyMap
    /\ trace[PngX] = <<"extract_metadata", "classify", "compress_to_avif True",
                       "move_file_with_structure">>
    /\ \A w \in writes : w.by # PngX

\* the PNG files under the images folder when main started; nothing changes the
\* files before the enumeration
PngFilesAtStart ==
    {p \in DOMAIN fs0 : p.ext = ".png" /\ IsUnder(p, images_folder)}

\* C23: the files that get a task are exactly the PNG files that were under the
\* images folder when the enumeration ran; the list is not changed once it is
\* made, and a file that is there only later is never given a task in this run.
C23_SnapshotEnumeration ==
    /\ [](/\ main_pc \in {"as_completed", "complete", "crashed"} =>
                /\ png_files = PngFilesAtStart
                /\ \A f \in PngUniverse : pc[f] # "idle" <=> f \in PngFilesAtStart
          /\ \A f \in PngUniverse \ PngFilesAtStart :
                pc[f] = "idle" /\ trace[f] = <<>>)
    /\ [][/\ main_pc # "rglob" => png_files' = png_files
          /\ \A f \in PngUniverse :
                (pc[f] = "idle" /\ pc'[f] # "idle") => main_pc = "rglob"]_vars

\* the batch is over; x.png was relocated into the review folder inside the
\* images folder, where no file was at the enumeration, and got no task there
C23_Witness ==
    /\ main_pc = "complete"
    /\ PngRX \in rglob(fs, images_folder)
    /\ PngRX \notin png_files
    /\ pc[PngRX] = "idle"

\* C24: the AVIF file of a converted image is at the image's path with the
\* extension replaced by .avif, whether or not a file was there before: a file
\* that was there is replaced, and no AVIF file has a counter suffix. The
\* sidecar path is the one that steps aside for a file that is there.
C24_AvifPathNotAllocated ==
    /\ [][\A f \in PngUniverse :
             (pc[f] = "convert" /\ LastStep(f)' = "compress_to_avif True") =>
                /\ DOMAIN fs' = DOMAIN fs \cup {with_suffix(f, ".avif")}
                /\ fs'[with_suffix(f, ".avif")].kind = "avif"
                /\ fs'[with_suffix(f, ".avif")].id = fs[f].id
                /\ \A p \in DOMAIN fs \ {with_suffix(f, ".avif")} : fs'[p] = fs[p]]_vars
    /\ [](/\ \A p \in DOMAIN fs :
                p.ext = ".avif" => \E g \in PngUniverse : p = with_suffix(g, ".avif")
          /\ \A p \in OldSidecars :
                p \in DOMAIN fs0 => (p \in DOMAIN fs /\ fs[p] = fs0[p]))

\* an earlier run left x.json and x.avif; x.png was converted onto x.avif,
\* while its sidecar went to x_1.json
C24_Witness ==
    /\ with_suffix(PngX, ".avif") \in DOMAIN fs0
    /\ "compress_to_avif True" \in StepsOf(PngX)
    /\ fs[with_suffix(PngX, ".avif")] = Avif("x")
    /\ \E w \in writes : w.by = PngX /\ w.path = Path(images_folder, "x_1", ".json")

====
